---- MODULE Spec2Model ----
(***************************************************************************)
(* The summary endpoint of app/api/generate-summary/route.tsx: one async   *)
(* handler, POST, that validates {query, context}, sorts and renders the   *)
(* context, substitutes it into a fixed prompt template, calls the model   *)
(* collaborator inside a Langfuse generation span and maps every exception *)
(* to an HTTP 500 response.                                                *)
(*                                                                         *)
(* Strings the handler builds are modelled as sequences of tokens: the     *)
(* literal pieces of the template literals ("Title: ", "\n", "---") and    *)
(* the field values, in the order the code concatenates them.              *)
(***************************************************************************)
EXTENDS Integers, Sequences, FiniteSets, TLC

\* ------------------------------------------------------------------ bounds

\* Number of requests the runtime may have in flight at once.
NumReq == 2
\* Longest context array of the formatting specification.
MaxCtx == 3

Requests == 1..NumReq

\* ------------------------------------------------------------ JSON values

\* JavaScript's undefined: the value of a property the JSON body does not carry.
Undefined == "undefined"

\* One element of the context array, as request.json() yields it. kind "null"
\* is the JSON value null; hasScore FALSE is an element without a numeric
\* score (the code never validates it), hasMetadata FALSE one without metadata.
SearchResult(content, hasMetadata, title, section, hasScore, score) ==
    [kind |-> "object", content |-> content, hasMetadata |-> hasMetadata,
     title |-> title, section |-> section, hasScore |-> hasScore, score |-> score]

NullResult ==
    [kind |-> "null", content |-> Undefined, hasMetadata |-> FALSE,
     title |-> Undefined, section |-> Undefined, hasScore |-> FALSE, score |-> 0]

Titles == {Undefined, "", "T"}
Sections == {Undefined, "", "S"}
Contents == {"A", "B"}
Scores == {1, 2}

\* The elements the formatting specification draws from: every metadata shape
\* on one (content, score), every (content, score) without metadata, an
\* element without score, and null.
Results ==
    {SearchResult("A", TRUE, t, s, TRUE, 1) : t \in Titles, s \in Sections}
    \cup {SearchResult(c, FALSE, Undefined, Undefined, TRUE, n) : c \in Contents, n \in Scores}
    \cup {SearchResult(c, FALSE, Undefined, Undefined, FALSE, 0) : c \in Contents}
    \cup {NullResult}

SeqsUpTo(S, n) == UNION {[1..k -> S] : k \in 0..n}

\* ------------------------------------------------------- thrown exceptions

\* A thrown value. isError: it is an instance of Error (name, message, stack
\* as the Error carries them); otherwise name holds its typeof.
ErrorOf(name, message) ==
    [isError |-> TRUE, name |-> name, message |-> message, stack |-> "stack of " \o name]
NonError(type) ==
    [isError |-> FALSE, name |-> type, message |-> Undefined, stack |-> Undefined]
NoError == [isError |-> FALSE, name |-> "none", message |-> Undefined, stack |-> Undefined]

\* ---------------------------------------------- context sorting (line 62)

\* a.score - b.score is NaN when either score is not a number.
CompareIsNaN(a, b) == ~(a.hasScore /\ b.hasScore)

\* A slip: the operands of the subtraction exchanged, b.score - a.score.
CompareExchanged(a, b) == IF CompareIsNaN(a, b) THEN 0 ELSE b.score - a.score

\* The comparator (a, b) => a.score - b.score as Array.prototype.sort reads
\* it: a NaN result counts as +0.
Compare(a, b) == IF CompareIsNaN(a, b) THEN 0 ELSE a.score - b.score

\* Whether the comparator is a consistent comparator for the elements of ctx
\* (ECMAScript, Array.prototype.sort): = and < are transitive, and a < b
\* is b > a.
ConsistentComparator(ctx) ==
    LET S == {ctx[i] : i \in DOMAIN ctx} IN
    \A a \in S, b \in S, c \in S :
        /\ Compare(a, a) = 0
        /\ (Compare(a, b) < 0) = (Compare(b, a) > 0)
        /\ (Compare(a, b) = 0 /\ Compare(b, c) = 0) => Compare(a, c) = 0
        /\ (Compare(a, b) < 0 /\ Compare(b, c) < 0) => Compare(a, c) < 0
        /\ (Compare(a, b) > 0 /\ Compare(b, c) > 0) => Compare(a, c) > 0

\* x inserted into the sorted sequence s behind every element that does not
\* compare greater than it: the sort is stable.
RECURSIVE InsertSorted(_, _)
InsertSorted(s, x) ==
    IF s = <<>> THEN <<x>>
    ELSE IF Compare(s[Len(s)], x) <= 0 THEN Append(s, x)
    ELSE Append(InsertSorted(SubSeq(s, 1, Len(s) - 1), x), s[Len(s)])

RECURSIVE StableSort(_)
StableSort(ctx) ==
    IF ctx = <<>> THEN <<>>
    ELSE InsertSorted(StableSort(SubSeq(ctx, 1, Len(ctx) - 1)), ctx[Len(ctx)])

Reorderings(ctx) ==
    {[i \in DOMAIN ctx |-> ctx[p[i]]] :
        p \in {q \in [DOMAIN ctx -> DOMAIN ctx] : \A i, j \in DOMAIN ctx : i # j => q[i] # q[j]}}

\* The arrays context.sort(...) may leave: the stable ascending order under a
\* consistent comparator, an implementation-defined order of the same
\* elements otherwise.
SortResults(ctx) ==
    IF ConsistentComparator(ctx) THEN {StableSort(ctx)} ELSE Reorderings(ctx)

\* ------------------------------------------ block rendering (lines 63-68)

Truthy(v) == v # Undefined /\ v # ""

\* result.metadata?.title ? `Title: ${result.metadata.title}\n` : ''
TitlePart(result) ==
    IF result.hasMetadata /\ Truthy(result.title)
    THEN <<"Title: ", result.title, "\n">> ELSE <<>>

\* result.metadata?.section ? `Section: ${result.metadata.section}\n` : ''
SectionPart(result) ==
    IF result.hasMetadata /\ Truthy(result.section)
    THEN <<"Section: ", result.section, "\n">> ELSE <<>>

\* A slip: `${section}${title}Content: ...`, the section before the title.
RenderBlockSectionFirst(result) ==
    SectionPart(result) \o TitlePart(result)
        \o <<"Content: ", result.content, "\n", "---", "\n">>

\* `${title}${section}Content: ${result.content}\n---\n`
RenderBlock(result) ==
    TitlePart(result) \o SectionPart(result)
        \o <<"Content: ", result.content, "\n", "---", "\n">>

\* blocks.join('\n')
RECURSIVE Join(_)
Join(blocks) ==
    IF blocks = <<>> THEN <<>>
    ELSE IF Len(blocks) = 1 THEN blocks[1]
    ELSE Join(SubSeq(blocks, 1, Len(blocks) - 1)) \o <<"\n">> \o blocks[Len(blocks)]

HasNull(ctx) == \E i \in DOMAIN ctx : ctx[i].kind = "null"

\* What context.sort(...).map(...).join('\n') does: it throws a TypeError on
\* a null element (in the comparator when there are two elements or more, in
\* the map callback otherwise), else it leaves the array sorted and yields
\* the blocks and their join.
FormatOutcome(ok, error, sorted, blocks, text) ==
    [ok |-> ok, error |-> error, sorted |-> sorted, blocks |-> blocks, text |-> text]

NoFormat == FormatOutcome(FALSE, NoError, <<>>, <<>>, <<>>)

FormatContext(ctx) ==
    IF HasNull(ctx) /\ Len(ctx) >= 2
    THEN {FormatOutcome(FALSE,
            ErrorOf("TypeError", "Cannot read properties of null (reading 'score')"),
            ctx, <<>>, <<>>)}
    ELSE IF HasNull(ctx)
    THEN {FormatOutcome(FALSE,
            ErrorOf("TypeError", "Cannot read properties of null (reading 'metadata')"),
            ctx, <<>>, <<>>)}
    ELSE {FormatOutcome(TRUE, NoError, s,
            [i \in DOMAIN s |-> RenderBlock(s[i])],
            Join([i \in DOMAIN s |-> RenderBlock(s[i])])) : s \in SortResults(ctx)}

\* ------------------------------------------ prompt template (lines 13-29)

TemplateHead ==
    "\nYou are a helpful Google Cloud Platform technical expert. Based on the following relevant documentation excerpts,\nprovide a clear, accurate, and concise answer to the user's question. If the provided context doesn't fully\nanswer the question, acknowledge this and provide what information you can from the available context.\n\nContext from GCP Documentation:\n"
TemplateMid == "\n\nUser Question: "
TemplateTail ==
    "\n\nPlease provide a technical summary that:\n1. Directly answers the user's question using information from the documentation\n2. Includes specific technical details and steps when available\n3. Maintains technical accuracy without including information not present in the context\n4. Acknowledges if any part of the question cannot be fully answered with the given context\n\nSummary and Answer:"

\* summaryPrompt.format({question, context})
FormatPrompt(question, context) ==
    <<TemplateHead>> \o context \o <<TemplateMid, question, TemplateTail>>

\* ------------------------------------------------------- request bodies

\* What request.json() yields for a request: json "malformed" is a body that
\* is not JSON (the promise rejects), "null" the JSON value null, "object" an
\* object with the properties query and context (Undefined when absent).
\* contextKind is "absent", "string" (a value that is not an array) or
\* "array", with the array in context.
Body(json, q, contextKind, ctx) ==
    [json |-> json, query |-> q, contextKind |-> contextKind, context |-> ctx]

MalformedBody == Body("malformed", Undefined, "absent", <<>>)
NullBody == Body("null", Undefined, "absent", <<>>)

\* The example of the specification: the score 2 result before the score 1 one.
ContextBA ==
    <<SearchResult("B", FALSE, Undefined, Undefined, TRUE, 2),
      SearchResult("A", FALSE, Undefined, Undefined, TRUE, 1)>>
ContextTS == <<SearchResult("A", TRUE, "T", "S", TRUE, 1)>>
ContextNull == <<NullResult>>

Question == "What is GKE?"

Bodies ==
    {MalformedBody, NullBody,
     Body("object", Undefined, "absent", <<>>),
     Body("object", "", "array", ContextBA),
     Body("object", Question, "absent", <<>>),
     Body("object", Question, "string", <<>>),
     Body("object", Question, "array", <<>>),
     Body("object", Question, "array", ContextBA),
     Body("object", Question, "array", ContextTS),
     Body("object", Question, "array", ContextNull)}

NoBody == Body("none", Undefined, "absent", <<>>)

\* ------------------------------------------------------- the collaborators

\* Texts the model collaborator may return, values its promise may reject with.
Texts == {"Hello", "Bye"}
ModelErrors == {ErrorOf("Error", "quota exceeded"), NonError("string")}

\* How the promise of generateContent settles: resolved with a text, or
\* rejected with a thrown value.
Resolved(text) == [ok |-> TRUE, text |-> text, error |-> NoError]
Rejected(e) == [ok |-> FALSE, text |-> Undefined, error |-> e]

\* process.env.NODE_ENV
NodeEnvs == {"development", "production", "test"}

\* ---------------------------------------------------------------- state

VARIABLES
    nodeEnv,          \* process.env.NODE_ENV
    pc,               \* where each request's handler is suspended
    body,             \* the body request.json() resolves with
    query,            \* const query
    context,          \* const context (sorted in place)
    formattedContext, \* const formattedContext
    formattedPrompt,  \* const formattedPrompt
    result,           \* const result
    traced,           \* whether langfuse.trace() returned this request's trace
    generation,       \* the generation span: "none", "open" or "ended"
    thrown,           \* the value the catch clause caught
    responses,        \* the responses the handler returned
    events,           \* the steps the handler took, in order
    invoked,          \* the prompts geminiService.generateContent was called with
    replies,          \* what the model collaborator answered each request's calls
    concurrent,       \* whether the model answered while another request awaited it
    input,            \* formatting specification: [query, context]
    output            \* formatting specification: what formatting gave

handlerVars ==
    <<pc, body, query, context, formattedContext, formattedPrompt, result, traced,
      generation, thrown, responses, events, invoked, replies, concurrent>>
formatVars == <<input, output>>
vars == <<nodeEnv, handlerVars, formatVars>>

\* ------------------------------------------------------------ responses

\* NextResponse.json(...) of lines 49-51 and 55-57.
BadRequest(message) == [status |-> 400, body |-> [error |-> message]]

\* NextResponse.json({summary: result, status: 'success'}), lines 92-95.
SuccessResponse(text) == [status |-> 200, body |-> [summary |-> text, status |-> "success"]]

\* error instanceof Error ? error.message : 'Failed to generate summary'
ErrorMessage(e) == IF e.isError THEN e.message ELSE "Failed to generate summary"

\* {errorType, stack}; JSON drops stack when it is undefined.
ErrorDetails(e) ==
    IF e.isError THEN [errorType |-> e.name, stack |-> e.stack] ELSE [errorType |-> e.name]

\* A slip: details given whatever NODE_ENV is.
ErrorResponseWithDetails(e, env) ==
    [status |-> 500,
     body |-> [error |-> ErrorMessage(e), status |-> "error", details |-> ErrorDetails(e)]]

\* The response of the catch clause, lines 99-106; JSON drops details when
\* it is undefined.
ErrorResponse(e, env) ==
    IF env = "development"
    THEN [status |-> 500,
          body |-> [error |-> ErrorMessage(e), status |-> "error", details |-> ErrorDetails(e)]]
    ELSE [status |-> 500, body |-> [error |-> ErrorMessage(e), status |-> "error"]]

\* ------------------------------------------------------------ the handler

InitHandler ==
    /\ pc = [r \in Requests |-> "idle"]
    /\ body = [r \in Requests |-> NoBody]
    /\ query = [r \in Requests |-> Undefined]
    /\ context = [r \in Requests |-> <<>>]
    /\ formattedContext = [r \in Requests |-> <<>>]
    /\ formattedPrompt = [r \in Requests |-> <<>>]
    /\ result = [r \in Requests |-> Undefined]
    /\ traced = [r \in Requests |-> FALSE]
    /\ generation = [r \in Requests |-> "none"]
    /\ thrown = [r \in Requests |-> NoError]
    /\ responses = [r \in Requests |-> <<>>]
    /\ events = [r \in Requests |-> <<>>]
    /\ invoked = [r \in Requests |-> <<>>]
    /\ replies = [r \in Requests |-> <<>>]
    /\ concurrent = [r \in Requests |-> FALSE]

Init ==
    /\ nodeEnv \in NodeEnvs
    /\ InitHandler
    /\ input = [query |-> Undefined, context |-> <<>>]
    /\ output = [pc |-> "unused", format |-> NoFormat, prompt |-> <<>>]

\* The handler returns resp: the request is done.
Return(r, resp, steps) ==
    /\ pc' = [pc EXCEPT ![r] = "done"]
    /\ responses' = [responses EXCEPT ![r] = Append(@, resp)]
    /\ events' = [events EXCEPT ![r] = @ \o steps \o <<"response">>]

\* The catch clause, lines 97-107: e reaches it and the handler returns the
\* 500 response.
Catch(r, e, steps) ==
    /\ thrown' = [thrown EXCEPT ![r] = e]
    /\ Return(r, ErrorResponse(e, nodeEnv), steps \o <<"catch">>)

\* POST is called with a request; it awaits request.json() (line 42).
Receive(r) ==
    /\ pc[r] = "idle"
    /\ \E b \in Bodies : body' = [body EXCEPT ![r] = b]
    /\ pc' = [pc EXCEPT ![r] = "parsing"]
    /\ events' = [events EXCEPT ![r] = <<"json">>]
    /\ UNCHANGED <<nodeEnv, query, context, formattedContext, formattedPrompt, result,
                   traced, generation, thrown, responses, invoked, replies, concurrent, formatVars>>

\* request.json() rejects: the body is not JSON.
JsonRejects(r) ==
    /\ pc[r] = "parsing"
    /\ body[r].json = "malformed"
    /\ Catch(r, ErrorOf("SyntaxError", "Unexpected token in JSON"), <<>>)
    /\ UNCHANGED <<nodeEnv, body, query, context, formattedContext, formattedPrompt, result,
                   traced, generation, invoked, replies, concurrent, formatVars>>

\* const { query, context } = null throws a TypeError.
DestructureThrows(r) ==
    /\ pc[r] = "parsing"
    /\ body[r].json = "null"
    /\ Catch(r, ErrorOf("TypeError", "Cannot destructure property 'query' of null"), <<>>)
    /\ UNCHANGED <<nodeEnv, body, query, context, formattedContext, formattedPrompt, result,
                   traced, generation, invoked, replies, concurrent, formatVars>>

\* const { query, context } = await request.json(), line 42.
Destructured(r) ==
    /\ pc[r] = "parsing"
    /\ body[r].json = "object"
    /\ query' = [query EXCEPT ![r] = body[r].query]

\* !context || !Array.isArray(context), line 54.
InvalidContext(b) == b.contextKind # "array"

\* langfuse.trace(...) throws, line 44.
TraceThrows(r) ==
    /\ Destructured(r)
    /\ Catch(r, ErrorOf("Error", "trace failed"), <<"destructure">>)
    /\ UNCHANGED <<nodeEnv, body, context, formattedContext, formattedPrompt, result,
                   traced, generation, invoked, replies, concurrent, formatVars>>

\* !query: 400, lines 48-52.
RejectQuery(r) ==
    /\ Destructured(r)
    /\ traced' = [traced EXCEPT ![r] = TRUE]
    /\ ~Truthy(body[r].query)
    /\ Return(r, BadRequest("Query is required"), <<"destructure", "trace", "validate">>)
    /\ UNCHANGED <<nodeEnv, body, context, formattedContext, formattedPrompt, result,
                   generation, thrown, invoked, replies, concurrent, formatVars>>

\* The context is no array: 400, lines 54-58.
RejectContext(r) ==
    /\ Destructured(r)
    /\ traced' = [traced EXCEPT ![r] = TRUE]
    /\ Truthy(body[r].query)
    /\ InvalidContext(body[r])
    /\ Return(r, BadRequest("Valid context array is required"),
              <<"destructure", "trace", "validate">>)
    /\ UNCHANGED <<nodeEnv, body, context, formattedContext, formattedPrompt, result,
                   generation, thrown, invoked, replies, concurrent, formatVars>>

\* Sorting or rendering the context throws, lines 61-68.
FormatThrows(r) ==
    /\ Destructured(r)
    /\ traced' = [traced EXCEPT ![r] = TRUE]
    /\ Truthy(body[r].query)
    /\ ~InvalidContext(body[r])
    /\ \E o \in FormatContext(body[r].context) :
        /\ ~o.ok
        /\ context' = [context EXCEPT ![r] = o.sorted]
        /\ Catch(r, o.error, <<"destructure", "trace", "validate", "sort">>)
    /\ UNCHANGED <<nodeEnv, body, formattedContext, formattedPrompt, result,
                   generation, invoked, replies, concurrent, formatVars>>

\* The request is valid: the context is sorted and rendered and the handler
\* awaits summaryPrompt.format(...), lines 61-74.
StartFormat(r) ==
    /\ Destructured(r)
    /\ traced' = [traced EXCEPT ![r] = TRUE]
    /\ Truthy(body[r].query)
    /\ ~InvalidContext(body[r])
    /\ \E o \in FormatContext(body[r].context) :
        /\ o.ok
        /\ context' = [context EXCEPT ![r] = o.sorted]
        /\ formattedContext' = [formattedContext EXCEPT ![r] = o.text]
    /\ pc' = [pc EXCEPT ![r] = "formatting"]
    /\ events' = [events EXCEPT ![r] = @ \o <<"destructure", "trace", "validate", "sort", "format">>]
    /\ UNCHANGED <<nodeEnv, body, formattedPrompt, result, generation, thrown, responses,
                   invoked, replies, concurrent, formatVars>>

\* summaryPrompt.format(...) rejects, line 71.
TemplateRejects(r) ==
    /\ pc[r] = "formatting"
    /\ Catch(r, ErrorOf("Error", "template failed"), <<>>)
    /\ UNCHANGED <<nodeEnv, body, query, context, formattedContext, formattedPrompt, result,
                   traced, generation, invoked, replies, concurrent, formatVars>>

\* trace.generation(...) throws, line 77.
GenerationThrows(r) ==
    /\ pc[r] = "formatting"
    /\ formattedPrompt' = [formattedPrompt EXCEPT ![r] = FormatPrompt(query[r], formattedContext[r])]
    /\ Catch(r, ErrorOf("Error", "generation failed"), <<"template">>)
    /\ UNCHANGED <<nodeEnv, body, query, context, formattedContext, result,
                   traced, generation, invoked, replies, concurrent, formatVars>>

\* A slip: a cache, no call for a prompt another request already sent.
InvocationsCached(r, prompt) ==
    IF \E s \in Requests \ {r} : invoked[s] = <<prompt>> THEN <<>> ELSE <<prompt>>

\* The calls of geminiService.generateContent one request makes with its
\* prompt, line 84: one, whatever was asked before.
Invocations(r, prompt) == <<prompt>>

\* The prompt is there: the generation span is opened and the model called;
\* the handler awaits its result, lines 71-84.
CallModel(r) ==
    /\ pc[r] = "formatting"
    /\ formattedPrompt' = [formattedPrompt EXCEPT ![r] = FormatPrompt(query[r], formattedContext[r])]
    /\ generation' = [generation EXCEPT ![r] = "open"]
    /\ invoked' = [invoked EXCEPT ![r] = @ \o Invocations(r, formattedPrompt'[r])]
    /\ pc' = [pc EXCEPT ![r] = "generating"]
    /\ events' = [events EXCEPT ![r] = @ \o <<"template", "generation", "model">>]
    /\ UNCHANGED <<nodeEnv, body, query, context, formattedContext, result, traced,
                   thrown, responses, replies, concurrent, formatVars>>

\* Whether another request is suspended at its own model call, line 84.
OthersAwaitModel(r) == \E s \in Requests \ {r} : pc[s] = "generating"

\* geminiService.generateContent(...) rejects, line 84: the span stays open.
ModelRejects(r) ==
    /\ pc[r] = "generating"
    /\ concurrent' = [concurrent EXCEPT ![r] = OthersAwaitModel(r)]
    /\ \E e \in ModelErrors :
        /\ replies' = [replies EXCEPT ![r] = Append(@, Rejected(e))]
        /\ Catch(r, e, <<>>)
    /\ UNCHANGED <<nodeEnv, body, query, context, formattedContext, formattedPrompt, result,
                   traced, generation, invoked, formatVars>>

\* A slip: result kept in a variable of the module, shared by the requests.
AwaitedResultShared(r, text) ==
    IF \E s \in Requests \ {r} : result[s] # Undefined
    THEN result[CHOOSE s \in Requests \ {r} : result[s] # Undefined]
    ELSE text

\* const result = await geminiService.generateContent(formattedPrompt): the
\* text the model returned for this request's call.
AwaitedResult(r, text) == text

\* A slip: a fallback that answers 200 with the text when closing the span
\* throws.
EndThrowsRecovered(r) ==
    /\ pc[r] = "generating"
    /\ concurrent' = [concurrent EXCEPT ![r] = OthersAwaitModel(r)]
    /\ \E t \in Texts :
        /\ replies' = [replies EXCEPT ![r] = Append(@, Resolved(t))]
        /\ result' = [result EXCEPT ![r] = AwaitedResult(r, t)]
    /\ thrown' = [thrown EXCEPT ![r] = ErrorOf("Error", "end failed")]
    /\ Return(r, SuccessResponse(result'[r]), <<"result", "end", "catch">>)
    /\ UNCHANGED <<nodeEnv, body, query, context, formattedContext, formattedPrompt,
                   traced, generation, invoked, formatVars>>

\* The model returns text and generation.end(...) throws, lines 84-90: the
\* catch clause answers 500.
EndThrows(r) ==
    /\ pc[r] = "generating"
    /\ concurrent' = [concurrent EXCEPT ![r] = OthersAwaitModel(r)]
    /\ \E t \in Texts :
        /\ replies' = [replies EXCEPT ![r] = Append(@, Resolved(t))]
        /\ result' = [result EXCEPT ![r] = AwaitedResult(r, t)]
    /\ Catch(r, ErrorOf("Error", "end failed"), <<"result", "end">>)
    /\ UNCHANGED <<nodeEnv, body, query, context, formattedContext, formattedPrompt,
                   traced, generation, invoked, formatVars>>

\* The model returns text, the span is closed and the handler answers 200,
\* lines 84-95.
Respond(r) ==
    /\ pc[r] = "generating"
    /\ concurrent' = [concurrent EXCEPT ![r] = OthersAwaitModel(r)]
    /\ \E t \in Texts :
        /\ replies' = [replies EXCEPT ![r] = Append(@, Resolved(t))]
        /\ result' = [result EXCEPT ![r] = AwaitedResult(r, t)]
    /\ generation' = [generation EXCEPT ![r] = "ended"]
    /\ Return(r, SuccessResponse(result'[r]), <<"result", "end">>)
    /\ UNCHANGED <<nodeEnv, body, query, context, formattedContext, formattedPrompt,
                   traced, thrown, invoked, formatVars>>

Next ==
    \E r \in Requests :
        \/ Receive(r)
        \/ JsonRejects(r)
        \/ DestructureThrows(r)
        \/ TraceThrows(r)
        \/ RejectQuery(r)
        \/ RejectContext(r)
        \/ FormatThrows(r)
        \/ StartFormat(r)
        \/ TemplateRejects(r)
        \/ GenerationThrows(r)
        \/ CallModel(r)
        \/ ModelRejects(r)
        \/ EndThrows(r)
        \/ Respond(r)

Spec == Init /\ [][Next]_vars

\* ------------------------------------------- the formatting on its own

\* The formatting of lines 61-74 applied to one context drawn from Results:
\* the handler's variables stay as Init leaves them.
InitFormat ==
    /\ nodeEnv = "production"
    /\ InitHandler
    /\ input \in [query : {Question}, context : SeqsUpTo(Results, MaxCtx)]
    /\ output = [pc |-> "start", format |-> NoFormat, prompt |-> <<>>]

\* context.sort(...).map(...).join('\n'), lines 61-68.
SortAndRender ==
    /\ output.pc = "start"
    /\ \E o \in FormatContext(input.context) :
        output' = [pc |-> IF o.ok THEN "rendered" ELSE "thrown", format |-> o, prompt |-> <<>>]
    /\ UNCHANGED <<nodeEnv, handlerVars, input>>

\* await summaryPrompt.format({question: query, context: formattedContext}).
Substitute ==
    /\ output.pc = "rendered"
    /\ output' = [output EXCEPT !.pc = "done",
                                !.prompt = FormatPrompt(input.query, output.format.text)]
    /\ UNCHANGED <<nodeEnv, handlerVars, input>>

NextFormat == SortAndRender \/ Substitute

SpecFormat == InitFormat /\ [][NextFormat]_vars

\* ------------------------------------------------------------- the claims

Done(r) == pc[r] = "done"
Steps(r) == {events[r][i] : i \in DOMAIN events[r]}

\* The body parsed as JSON and carries no truthy query.
MissingQuery(b) == b.json \in {"null", "object"} /\ ~Truthy(b.query)
\* The body carries a truthy query and no array as context.
MissingContext(b) == b.json = "object" /\ Truthy(b.query) /\ b.contextKind # "array"
\* A well-formed request: a truthy query and an array as context.
WellFormed(b) == b.json = "object" /\ Truthy(b.query) /\ b.contextKind = "array"

\* Whether step a is taken before step b in the steps of request r.
Before(r, a, b) ==
    \E i, j \in DOMAIN events[r] : i < j /\ events[r][i] = a /\ events[r][j] = b

\* C1 as stated: every request whose JSON body has no truthy query is answered
\* 400 {error: "Query is required"} and the model is not invoked for it.
C1_MissingQueryIs400 ==
    \A r \in Requests :
        (Done(r) /\ MissingQuery(body[r])) =>
            /\ responses[r] = <<[status |-> 400, body |-> [error |-> "Query is required"]]>>
            /\ invoked[r] = <<>>

\* C2 as stated: every request with a truthy query and a context that is
\* absent or no array is answered 400 {error: "Valid context array is
\* required"} and the model is not invoked for it.
C2_MissingContextIs400 ==
    \A r \in Requests :
        (Done(r) /\ MissingContext(body[r])) =>
            /\ responses[r] =
                <<[status |-> 400, body |-> [error |-> "Valid context array is required"]]>>
            /\ invoked[r] = <<>>

\* The prompt a well-formed request's handler builds from its own body.
OwnPrompt(r) == FormatPrompt(body[r].query, formattedContext[r])

\* C3 as stated: every well-formed request whose model invocation returned a
\* text t is answered 200 {summary: t, status: "success"}.
C3_ModelTextIs200 ==
    \A r \in Requests :
        (Done(r) /\ WellFormed(body[r]) /\ replies[r] # <<>> /\ replies[r][1].ok) =>
            responses[r] =
                <<[status |-> 200,
                   body |-> [summary |-> replies[r][1].text, status |-> "success"]]>>

\* C3, amended: a well-formed request whose model invocation returned a text
\* t and whose generation span closed without throwing is answered 200
\* {summary: t, status: "success"}, t being what the model returned to the
\* one call made with this request's own prompt; and no response of status
\* 200 carries anything else, however the requests interleave.
C3_OwnModelTextIs200 ==
    \A r \in Requests :
        /\ (Done(r) /\ WellFormed(body[r]) /\ replies[r] # <<>> /\ replies[r][1].ok
                /\ thrown[r] = NoError) =>
            /\ responses[r] =
                <<[status |-> 200,
                   body |-> [summary |-> replies[r][1].text, status |-> "success"]]>>
            /\ invoked[r] = <<OwnPrompt(r)>>
        /\ \A i \in DOMAIN responses[r] :
            responses[r][i].status = 200 =>
                /\ replies[r] # <<>> /\ replies[r][1].ok
                /\ responses[r][i].body.summary = replies[r][1].text

\* Two requests with different prompts were answered 200 with different
\* texts, the first while the second was awaiting the model.
C3_Witness ==
    /\ Done(1) /\ Done(2)
    /\ concurrent[1]
    /\ invoked[1] # invoked[2]
    /\ responses[1] = <<[status |-> 200, body |-> [summary |-> "Hello", status |-> "success"]]>>
    /\ responses[2] = <<[status |-> 200, body |-> [summary |-> "Bye", status |-> "success"]]>>

\* C4: a well-formed request whose model invocation throws an Error with
\* message m is answered 500 with error = m and status = "error", and the
\* response carries details (errorType, stack) if and only if NODE_ENV is
\* "development".
C4_ModelErrorIs500 ==
    \A r \in Requests :
        (Done(r) /\ WellFormed(body[r]) /\ replies[r] # <<>> /\ ~replies[r][1].ok
                /\ replies[r][1].error.isError) =>
            LET e == replies[r][1].error IN
            /\ Len(responses[r]) = 1
            /\ responses[r][1].status = 500
            /\ responses[r][1].body.error = e.message
            /\ responses[r][1].body.status = "error"
            /\ ("details" \in DOMAIN responses[r][1].body) = (nodeEnv = "development")
            /\ nodeEnv = "development" =>
                responses[r][1].body.details = [errorType |-> e.name, stack |-> e.stack]
            /\ nodeEnv # "development" =>
                DOMAIN responses[r][1].body = {"error", "status"}

\* The model threw "quota exceeded" outside development.
C4_Witness ==
    /\ nodeEnv = "production"
    /\ Done(1)
    /\ replies[1] = <<Rejected(ErrorOf("Error", "quota exceeded"))>>

\* The orders in which n blocks can list n elements.
Orders(n) == {p \in [1..n -> 1..n] : \A i, j \in 1..n : i # j => p[i] # p[j]}

\* The prompt is the template around exactly one block per element of the
\* context, the i-th block being the one of element p[i].
PromptLists(p) ==
    output.prompt =
        FormatPrompt(input.query,
                     Join([i \in DOMAIN p |-> RenderBlock(input.context[p[i]])]))

\* Of two elements with different numeric scores, the block of the lower one
\* comes first.
LowerScoreFirst(p) ==
    \A i, j \in DOMAIN p :
        (/\ input.context[p[i]].hasScore
         /\ input.context[p[j]].hasScore
         /\ input.context[p[i]].score < input.context[p[j]].score) => i < j

\* C5 as stated: the prompt of every well-formed request holds exactly one
\* block per element of the context, and of two elements with different
\* scores the block of the lower one comes first.
C5_PromptAscending ==
    output.pc = "done" =>
        \E p \in Orders(Len(input.context)) : PromptLists(p) /\ LowerScoreFirst(p)

\* C5, amended: the same, for every well-formed request whose context
\* elements all carry a numeric score.
C5_NumericScoresAscending ==
    (output.pc = "done" /\ \A i \in DOMAIN input.context : input.context[i].hasScore) =>
        \E p \in Orders(Len(input.context)) : PromptLists(p) /\ LowerScoreFirst(p)

\* The example of the specification: [{B, 2}, {A, 1}] is listed A, then B.
C5_Witness ==
    /\ output.pc = "done"
    /\ input.context = ContextBA
    /\ output.prompt =
        <<TemplateHead,
          "Content: ", "A", "\n", "---", "\n",
          "\n",
          "Content: ", "B", "\n", "---", "\n",
          TemplateMid, Question, TemplateTail>>

\* The lines of a text: a line ends at each "\n".
RECURSIVE SplitLines(_)
SplitLines(text) ==
    IF text = <<>> THEN <<>>
    ELSE IF \A i \in DOMAIN text : text[i] # "\n" THEN <<text>>
    ELSE LET k == CHOOSE i \in DOMAIN text :
                    text[i] = "\n" /\ \A j \in 1..(i - 1) : text[j] # "\n"
         IN <<SubSeq(text, 1, k - 1)>> \o SplitLines(SubSeq(text, k + 1, Len(text)))

\* The lines the claim gives the block of a result.
BlockLines(res) ==
    (IF res.hasMetadata /\ res.title # Undefined /\ res.title # ""
     THEN <<(<<"Title: ", res.title>>)>> ELSE <<>>)
    \o (IF res.hasMetadata /\ res.section # Undefined /\ res.section # ""
        THEN <<(<<"Section: ", res.section>>)>> ELSE <<>>)
    \o <<(<<"Content: ", res.content>>), (<<"---">>)>>

\* C6: each result is rendered as one block of lines: "Title: <title>" only
\* if metadata.title is present and non-empty, "Section: <section>" only if
\* metadata.section is present and non-empty, then "Content: <content>" and
\* "---", each on a line of its own; a result without metadata gives a block
\* that begins with "Content: <content>"; and the context of the prompt is
\* these blocks.
C6_BlockLayout ==
    output.pc \in {"rendered", "done"} =>
        /\ Len(output.format.blocks) = Len(input.context)
        /\ \A i \in DOMAIN output.format.blocks :
            LET res == output.format.sorted[i]
                block == output.format.blocks[i]
            IN /\ SplitLines(block) = BlockLines(res)
               /\ block[Len(block)] = "\n"
               /\ ~res.hasMetadata => SubSeq(block, 1, 2) = <<"Content: ", res.content>>
        /\ output.pc = "done" =>
            output.prompt =
                <<TemplateHead>> \o Join(output.format.blocks)
                    \o <<TemplateMid, input.query, TemplateTail>>

\* A result with title T and section S and a result without metadata were
\* rendered.
C6_Witness ==
    /\ output.pc = "done"
    /\ \E i \in DOMAIN output.format.blocks :
        output.format.blocks[i] =
            <<"Title: ", "T", "\n", "Section: ", "S", "\n", "Content: ", "A", "\n", "---", "\n">>
    /\ \E i \in DOMAIN output.format.blocks :
        /\ ~output.format.sorted[i].hasMetadata
        /\ output.format.blocks[i] = <<"Content: ", "B", "\n", "---", "\n">>

\* An exception reached the catch clause before the model was called.
FailedBeforeModel(r) == thrown[r] # NoError /\ "model" \notin Steps(r)

\* C7 as stated: every well-formed request invokes the model exactly once.
C7_ExactlyOneInvocation ==
    \A r \in Requests :
        (Done(r) /\ WellFormed(body[r])) => Len(invoked[r]) = 1

\* C7, amended: no request invokes the model more than once, a request that
\* is not well-formed never does, and a well-formed request invokes it
\* exactly once, whatever was served before, unless an earlier step of the
\* same request (opening the trace, formatting the context or the prompt,
\* opening the generation span) threw.
C7_OneInvocationUnlessEarlierThrow ==
    \A r \in Requests :
        /\ Len(invoked[r]) <= 1
        /\ ~WellFormed(body[r]) => invoked[r] = <<>>
        /\ (Done(r) /\ WellFormed(body[r]) /\ ~FailedBeforeModel(r)) =>
            invoked[r] = <<OwnPrompt(r)>>
        /\ (Done(r) /\ FailedBeforeModel(r)) => invoked[r] = <<>>

\* Two identical well-formed requests were both answered 200, each after an
\* invocation of its own with the same prompt.
C7_Witness ==
    /\ Done(1) /\ Done(2)
    /\ body[1] = body[2]
    /\ responses[1][1].status = 200 /\ responses[2][1].status = 200
    /\ Len(invoked[1]) = 1 /\ invoked[1] = invoked[2]

\* C8: every exception raised while a request is handled (parsing the body,
\* opening the trace, formatting, opening the span, the model call, closing
\* the span) reaches the one catch clause and gives exactly one response, 500
\* with {error: <message>, status: "error"} (the message of the Error, or
\* "Failed to generate summary" for a thrown value that is no Error); when
\* closing the span throws after the model returned a text, the response is
\* 500 and carries no summary.
C8_EveryExceptionIs500 ==
    \A r \in Requests :
        /\ Len(responses[r]) = (IF Done(r) THEN 1 ELSE 0)
        /\ ("catch" \in Steps(r)) = (thrown[r] # NoError)
        /\ (Done(r) /\ (body[r].json \in {"malformed", "null"}
                        \/ (replies[r] # <<>> /\ ~replies[r][1].ok)
                        \/ (result[r] # Undefined /\ generation[r] # "ended"))) =>
            thrown[r] # NoError
        /\ thrown[r] # NoError =>
            /\ Done(r)
            /\ responses[r][1].status = 500
            /\ responses[r][1].body.error =
                (IF thrown[r].isError THEN thrown[r].message ELSE "Failed to generate summary")
            /\ responses[r][1].body.status = "error"
            /\ "summary" \notin DOMAIN responses[r][1].body

\* The model returned "Hello" and closing the generation span threw.
C8_Witness ==
    /\ Done(1)
    /\ replies[1] = <<Resolved("Hello")>>
    /\ result[1] = "Hello"
    /\ thrown[1] = ErrorOf("Error", "end failed")

\* The steps of one request in the order the claim gives them.
StepOrder ==
    <<"validate", "sort", "format", "template", "generation", "model", "end", "response">>

\* C9 as stated: the steps of a request come in the order validation,
\* sorting and formatting, template substitution, span start, model
\* invocation, span end, response; no trace is opened before the validation
\* has passed, and a request answered 400 has opened none.
C9_ValidationBeforeTrace ==
    \A r \in Requests :
        /\ \A i, j \in DOMAIN StepOrder :
            (i < j /\ StepOrder[i] \in Steps(r) /\ StepOrder[j] \in Steps(r)) =>
                Before(r, StepOrder[i], StepOrder[j])
        /\ "trace" \in Steps(r) => (WellFormed(body[r]) /\ Before(r, "validate", "trace"))
        /\ (Done(r) /\ responses[r][1].status = 400) => (~traced[r] /\ generation[r] = "none")

\* C10 as stated: on every path, a generation span that was opened has had
\* end called by the time the response is returned.
C10_OpenedSpanIsClosed ==
    \A r \in Requests :
        (Done(r) /\ "generation" \in Steps(r)) =>
            "end" \in Steps(r)

====
